---------------------------- MODULE Spec2Model ----------------------------
(***************************************************************************)
(* Model of extract_bill_information.py: the batch run (main,              *)
(* extract_bill_information, extract_dispatcher, the three provider        *)
(* extractors, sanitize_bill, generate_bill_report) and its pure helpers.  *)
(*                                                                         *)
(* Text is modelled as a sequence of atoms.  An atom is either one         *)
(* character ("1", ",", " ", "€") or one of the fixed words the code       *)
(* searches for ("CAMPANILLA", "Nº factura:", "Potencia ") or an opaque    *)
(* word of the document ("F1", "01/02/2024").  A line is a sequence of     *)
(* atoms, a page a sequence of lines, a document a sequence of pages.      *)
(* Python values are tagged records: None, Str(text), Num(cents),          *)
(* Date(atom), Bool(b).  Monetary numbers are kept in cents.               *)
(***************************************************************************)
EXTENDS Integers, Sequences, FiniteSets, TLC

VARIABLES
    aLine,      \* SpecAmount: the captured line handed to _extract_billed_amount
    aPieces,    \* SpecAmount: number of pieces the line was built from
    aOut,       \* SpecAmount: Pending, or the value _extract_billed_amount returned
    sRaw,       \* SpecSanitize: the raw record handed to sanitize_bill
    sOut,       \* SpecSanitize: Pending, or [returned, data] after sanitize_bill
    xStage,     \* SpecExtract: the loop the extractor is in, "idle" or "done"
    xPages,     \* SpecExtract: len(pdf.pages) of the document
    xBill,      \* SpecExtract: bill_info so far
    xScanned,   \* SpecExtract: number of lines scanned so far
    xFirst,     \* SpecExtract: per key, what the first line that set it captured
    xLast,      \* SpecExtract: per key, what the last line that set it captured
    xOut,       \* SpecExtract: Pending, or what the extractor returned
    pc,         \* Spec: where main is: "main", "loop", "exit" ("idle" elsewhere)
    dispatchers,\* Spec: args.defaults['dispatchers'], a list of [marker, extractor]
    sheet_names,\* Spec: args.defaults['sheet_names'], a list of [cups, title]
    limit,      \* Spec: args.limit
    files,      \* Spec: len(files), once the directory is listed and limited
    processed,  \* Spec: number of files the loop has taken from the list
    bills,      \* Spec: the dict bills: cups -> bill_id -> record
    order,      \* Spec: the keys of bills in insertion order
    outcomes,   \* Spec: per document of the catalogue, what lines 114-119 give for it
    last,       \* Spec: what happened to the file taken last
    error,      \* Spec: "" or the error that was logged
    result,     \* Spec: Pending, or what main returned
    workbook    \* Spec: the sheets saved to args.output, <<>> while none is

amountVars == <<aLine, aPieces, aOut>>
sanitizeVars == <<sRaw, sOut>>
extractVars == <<xStage, xPages, xBill, xScanned, xFirst, xLast, xOut>>
batchVars ==
    <<pc, dispatchers, sheet_names, limit, files, processed, bills, order, outcomes, last,
      error, result, workbook>>
vars ==
    <<aLine, aPieces, aOut, sRaw, sOut, xStage, xPages, xBill, xScanned, xFirst, xLast, xOut,
      pc, dispatchers, sheet_names, limit, files, processed, bills, order, outcomes, last,
      error, result, workbook>>

---------------------------------------------------------------------------
(* Python values *)

None == [t |-> "none"]
Str(s) == [t |-> "str", v |-> s]
Num(n) == [t |-> "num", v |-> n]
Date(d) == [t |-> "date", v |-> d]
Bool(b) == [t |-> "bool", v |-> b]
Pending == [t |-> "pending"]

---------------------------------------------------------------------------
(* Bounds *)

MaxPieces == 3

MaxLines == 4
MaxFiles == 3

---------------------------------------------------------------------------
(* Characters *)

Digits == <<"0", "1", "2", "3", "4", "5", "6", "7", "8", "9">>

DigitSet == {"0", "1", "2", "3", "4", "5", "6", "7", "8", "9"}

IsDigit(c) == c \in DigitSet

DigitVal(c) == (CHOOSE k \in 1..10 : Digits[k] = c) - 1

At(s, i) == IF i >= 1 /\ i <= Len(s) THEN s[i] ELSE "<eol>"

\* str.strip(): leading and trailing blanks removed
RECURSIVE LStrip(_)
LStrip(s) == IF s # <<>> /\ Head(s) = " " THEN LStrip(Tail(s)) ELSE s

RECURSIVE RStrip(_)
RStrip(s) ==
    IF s # <<>> /\ s[Len(s)] = " " THEN RStrip(SubSeq(s, 1, Len(s) - 1)) ELSE s

Strip(s) == RStrip(LStrip(s))

\* str.replace(c, ''): every occurrence of the atom removed
Remove(s, c) == SelectSeq(s, LAMBDA a : a # c)

---------------------------------------------------------------------------
(* AMOUNT_PATTERN = [+-]?(?:\d{1,3}(?:\.\d{3})*|\d+),\d{2} ?€               *)
(* matched the way the regex engine does: from a start position, left to   *)
(* right.  Each operator returns the position after what it consumed, or 0.*)

\* [+-]?
SignEnd(s, i) == IF At(s, i) \in {"+", "-"} THEN i + 1 ELSE i

\* the first position from j on that holds neither a digit nor a period: no
\* integer part starting at j reaches beyond it
RECURSIVE RunEnd(_, _)
RunEnd(s, j) ==
    IF j <= Len(s) /\ (IsDigit(s[j]) \/ s[j] = ".") THEN RunEnd(s, j + 1) ELSE j

\* \d+ : every position a run of digits starting at j can stop at
PlainEnds(s, j) ==
    {e \in (j + 1)..RunEnd(s, j) : \A p \in j..(e - 1) : IsDigit(s[p])}

\* \d{1,3}(?:\.\d{3})* : every position it can stop at
GroupedEnds(s, j) ==
    {e \in (j + 1)..RunEnd(s, j) :
        \E k \in 1..3 :
            /\ j + k <= e
            /\ \A p \in j..(j + k - 1) : IsDigit(s[p])
            /\ (e - (j + k)) % 4 = 0
            /\ \A p \in (j + k)..(e - 1) :
                  IF (p - (j + k)) % 4 = 0 THEN s[p] = "." ELSE IsDigit(s[p])}

\* ,\d{2} ?€ from position e
SuffixEndWithOptionalSymbol(s, e) ==
    IF At(s, e) = "," /\ IsDigit(At(s, e + 1)) /\ IsDigit(At(s, e + 2))
    THEN IF At(s, e + 3) = " " /\ At(s, e + 4) = "€" THEN e + 5
         ELSE IF At(s, e + 3) = "€" THEN e + 4
         ELSE e + 3
    ELSE 0

SuffixEnd(s, e) ==
    IF At(s, e) = "," /\ IsDigit(At(s, e + 1)) /\ IsDigit(At(s, e + 2))
    THEN IF At(s, e + 3) = " " /\ At(s, e + 4) = "€" THEN e + 5
         ELSE IF At(s, e + 3) = "€" THEN e + 4
         ELSE 0
    ELSE 0

\* The position after the match that starts at i, or 0 when none starts there.
\* The integer part holds no comma, so at most one stop position continues
\* with the suffix and the engine's alternation order cannot change the match.
MatchEnd(s, i) ==
    LET j == SignEnd(s, i)
        ok == {e \in GroupedEnds(s, j) \cup PlainEnds(s, j) : SuffixEnd(s, e) > 0}
    IN  IF ok = {} THEN 0 ELSE SuffixEnd(s, CHOOSE e \in ok : TRUE)

\* AMOUNT_PATTERN.findall(line): leftmost, non-overlapping matches
RECURSIVE FindallFrom(_, _)
FindallFrom(s, i) ==
    IF i > Len(s) THEN <<>>
    ELSE LET e == MatchEnd(s, i)
         IN  IF e > 0 THEN <<SubSeq(s, i, e - 1)>> \o FindallFrom(s, e)
             ELSE FindallFrom(s, i + 1)

FindallFirstOnly(s) ==
    LET all == FindallFrom(s, 1) IN IF all = <<>> THEN <<>> ELSE <<Head(all)>>

Findall(s) == FindallFrom(s, 1)

\* locale.atof under the bills' locale: the grouping periods are dropped and
\* the comma is the decimal point.  The value is kept in cents: the texts
\* reaching this operator have two decimals or none.
RECURSIVE DigitsValue(_, _)
DigitsValue(s, acc) ==
    IF s = <<>> THEN acc
    ELSE DigitsValue(Tail(s), IF IsDigit(Head(s)) THEN 10 * acc + DigitVal(Head(s)) ELSE acc)

Atof(s) ==
    LET body == Remove(s, ".")
        neg == body # <<>> /\ Head(body) = "-"
        cents == IF \E p \in 1..Len(body) : body[p] = ","
                 THEN DigitsValue(body, 0)
                 ELSE 100 * DigitsValue(body, 0)
    IN  IF neg THEN 0 - cents ELSE cents

\* _extract_billed_amount(data, key), given data[key]
ExtractBilledAmount(line) ==
    LET billed_amount == Findall(line)
    IN  IF Len(billed_amount) # 1 THEN None
        ELSE Num(Atof(Strip(Remove(billed_amount[1], "€"))))

---------------------------------------------------------------------------
(* Records (Python dicts): functions from keys to values *)

Has(d, k) == k \in DOMAIN d

Put(d, k, v) == [x \in DOMAIN d \cup {k} |-> IF x = k THEN v ELSE d[x]]

\* _get_default_bill_info()
DefaultBillInfo ==
    [ is_ours |-> Bool(FALSE),
      bill_id |-> None,
      billing_date |-> None,
      billing_period |-> None,
      billed_power_capacity |-> None,
      billed_energy_consumed |-> None,
      billed_amount_0 |-> None,
      billed_amount_1 |-> None,
      is_rectification |-> Bool(FALSE),
      cups |-> None ]

\* The variables of a specification that is not the one running keep these values.
AmountIdle ==
    /\ aLine = <<>>
    /\ aPieces = 0
    /\ aOut = Pending

SanitizeIdle ==
    /\ sRaw = DefaultBillInfo
    /\ sOut = Pending

ExtractIdle ==
    /\ xStage = "idle"
    /\ xPages = 0
    /\ xBill = DefaultBillInfo
    /\ xScanned = 0
    /\ xFirst = <<>>
    /\ xLast = <<>>
    /\ xOut = Pending

EmptyDict == [k \in {} |-> None]

\* F applied to the value of v, which is evaluated once
With(v, F(_)) == CHOOSE out \in {F(x) : x \in {v}} : TRUE

NoFile == [doc |-> 0, outcome |-> "", invoked |-> "", replaced |-> FALSE]

BatchIdle ==
    /\ pc = "idle"
    /\ dispatchers = <<>>
    /\ sheet_names = <<>>
    /\ limit = 0
    /\ files = 0
    /\ processed = 0
    /\ bills = EmptyDict
    /\ order = <<>>
    /\ outcomes = <<>>
    /\ last = NoFile
    /\ error = ""
    /\ result = Pending
    /\ workbook = <<>>

PowerTypes == <<"P1", "P2", "P3", "P4", "P5", "P6">>

MandatoryPowerTypes == {"P1", "P2", "P3"}

---------------------------------------------------------------------------
(* Dates.  A date of a document is one atom.  ValidDMY are the dd/mm/yyyy   *)
(* texts strptime accepts; InvalidDMY look like a date to the regex         *)
(* \d{2}/\d{2}/\d{4} and are rejected by strptime.                          *)

ValidDMY == {"01/02/2024", "29/02/2024", "05/03/2024"}

InvalidDMY == {"31/02/2024"}

DateLike == ValidDMY \cup InvalidDMY

\* datetime.strptime(text, "%d/%m/%Y"): the date, or Raised for ValueError
Raised == [t |-> "raised"]

StrptimeDMY(text) ==
    IF Len(text) = 1 /\ text[1] \in ValidDMY THEN Date(text[1]) ELSE Raised

\* re.findall(r"\d{2}/\d{2}/\d{4}", text)
FindallDates(text) == SelectSeq(text, LAMBDA a : a \in DateLike)

---------------------------------------------------------------------------
(* is_bill_sane and sanitize_bill *)

IsBlank(value) == value.t = "str" /\ Strip(value.v) = <<>>

MissingKeysIgnoringBlank(data) == {k \in DOMAIN data : data[k] = None}

\* is_bill_sane: the keys whose value is None or a blank string
MissingKeys(data) == {k \in DOMAIN data : data[k] = None \/ IsBlank(data[k])}

IsBillSane(data) == MissingKeys(data) = {}

\* lines 427-429
NeverRectify(data) == data

Rectify(data) ==
    IF data["billed_amount_1"] # data["billed_amount_0"]
    THEN [data EXCEPT !["is_rectification"] = Bool(TRUE)]
    ELSE data

\* lines 431-436: the loop over P1..P6 from index i on; [returned, data]
\* a loop over the tariff codes that asks for P1 only
RECURSIVE SanitizePowerAskingP1Only(_, _)
SanitizePowerAskingP1Only(data, i) ==
    IF i > Len(PowerTypes) THEN [returned |-> TRUE, data |-> data]
    ELSE With(data,
              LAMBDA d :
                  IF ~Has(d, PowerTypes[i]) /\ PowerTypes[i] = "P1"
                  THEN [returned |-> FALSE, data |-> d]
                  ELSE IF Has(d, PowerTypes[i]) /\ d[PowerTypes[i]] # None
                  THEN SanitizePowerAskingP1Only(
                           [d EXCEPT ![PowerTypes[i]] = Num(Atof(Strip(d[PowerTypes[i]].v)))],
                           i + 1)
                  ELSE SanitizePowerAskingP1Only(d, i + 1))

RECURSIVE SanitizePower(_, _)
SanitizePower(data, i) ==
    IF i > Len(PowerTypes) THEN [returned |-> TRUE, data |-> data]
    ELSE With(data,
              LAMBDA d :
                  IF ~Has(d, PowerTypes[i]) /\ PowerTypes[i] \in MandatoryPowerTypes
                  THEN [returned |-> FALSE, data |-> d]
                  ELSE IF Has(d, PowerTypes[i]) /\ d[PowerTypes[i]] # None
                  THEN SanitizePower(
                           [d EXCEPT ![PowerTypes[i]] = Num(Atof(Strip(d[PowerTypes[i]].v)))],
                           i + 1)
                  ELSE SanitizePower(d, i + 1))

\* lines 403-425: one monetary field after the other; the first None stops
RECURSIVE SanitizeAmounts(_, _)
SanitizeAmounts(data, keys) ==
    IF keys = <<>> THEN SanitizePower(Rectify(data), 1)
    ELSE With(<<data, ExtractBilledAmount(data[Head(keys)].v)>>,
              LAMBDA at :
                  IF at[2] = None THEN [returned |-> FALSE, data |-> at[1]]
                  ELSE SanitizeAmounts([at[1] EXCEPT ![Head(keys)] = at[2]], Tail(keys)))

AmountKeys ==
    <<"billed_power_capacity", "billed_energy_consumed",
      "billed_amount_0", "billed_amount_1">>

\* lines 392-401
SanitizePeriod(data) ==
    LET billing_period == FindallDates(data["billing_period"].v)
    IN  IF Len(billing_period) # 2 THEN [returned |-> FALSE, data |-> data]
        ELSE LET start == StrptimeDMY(<<billing_period[1]>>)
                 end == StrptimeDMY(<<billing_period[2]>>)
             IN  IF start = Raised THEN [returned |-> FALSE, data |-> data]
                 ELSE IF end = Raised
                 THEN [returned |-> FALSE,
                       data |-> Put(data, "billing_period_start", start)]
                 ELSE SanitizeAmounts(
                          With(Put(data, "billing_period_start", start),
                               LAMBDA d : Put(d, "billing_period_end", end)),
                          AmountKeys)

\* lines 386-390
SanitizeDate(data) ==
    LET date == StrptimeDMY(data["billing_date"].v)
    IN  IF date = Raised THEN [returned |-> FALSE, data |-> data]
        ELSE SanitizePeriod([data EXCEPT !["billing_date"] = date])

\* sanitize_bill(data): returned says whether data (and not None) is returned;
\* data is the dict after the call, which the code changes in place.
SanitizeBill(data) ==
    IF ~IsBillSane(data) THEN [returned |-> FALSE, data |-> data]
    ELSE SanitizeDate(data)

---------------------------------------------------------------------------
(* Words of a line.  "w in line" and line.startswith(w) are decided on the  *)
(* atoms: a searched word is found when the line holds an atom containing   *)
(* it.  The atoms below are the labels of the three bill layouts.           *)

\* the atoms of the documents that contain the searched word w
Within(w) ==
    CASE w = "CUPS" -> {"CUPS", "CUPS:", "(CUPS):"}
      [] w = "Periododefacturación" -> {"Periododefacturación"}
      [] OTHER -> {w}

\* the atoms of the documents that begin with the prefix w
Begins(w) ==
    CASE w = "Total " -> {"Total ", "Total Factura"}
      [] w = "P" -> {"P1", "P2", "P3", "P4", "P5", "P6", "Punta", "Potencia ",
                     "Por Potencia Contratada", "Por Energía Consumida",
                     "Periodo de facturación:", "Periodo de Consumo:",
                     "Periododefacturación"}
      [] OTHER -> {w}

Contains(line, w) == \E p \in 1..Len(line) : line[p] \in Within(w)

StartsWith(line, w) == line # <<>> /\ line[1] \in Begins(w)

\* atoms that end with a colon
ColonAtoms ==
    {":", "Nº factura:", "Nº de factura:", "Nºfactura:", "Fecha emisión factura:",
     "Fechaemisiónfactura:", "Periodo de facturación:", "(CUPS):", "CUPS:",
     "Nº de Factura:", "Fecha de Factura:", "Periodo de Consumo:"}

\* atoms that end with a blank
BlankEndedAtoms == {" ", "Potencia ", "Energía ", "Total ", "TOTAL "}

\* the part of a line after the last atom of a set (the whole line if none)
AfterLast(line, atoms) ==
    LET ps == {p \in 1..Len(line) : line[p] \in atoms}
    IN  IF ps = {} THEN line
        ELSE SubSeq(line, (CHOOSE p \in ps : \A q \in ps : q <= p) + 1, Len(line))

\* the part of a line before the first atom of a set (the whole line if none)
BeforeFirst(line, atoms) ==
    LET ps == {p \in 1..Len(line) : line[p] \in atoms}
    IN  IF ps = {} THEN line
        ELSE SubSeq(line, 1, (CHOOSE p \in ps : \A q \in ps : p <= q) - 1)

\* line.split(':')[-1].strip()
AfterColon(line) == Strip(AfterLast(line, ColonAtoms))

\* line.split(' ')[-1].strip(): a label of several words yields its last word
LastWord(line) ==
    LET rest == AfterLast(line, BlankEndedAtoms)
    IN  Strip([p \in 1..Len(rest) |->
                  IF rest[p] = "Nº Factura" THEN "Factura" ELSE rest[p]])

\* ' '.join(text.split(' ')[0:2]): the text up to its second blank
RECURSIVE UpToBlank(_, _)
UpToBlank(text, n) ==
    IF text = <<>> THEN <<>>
    ELSE IF Head(text) = " "
         THEN IF n = 1 THEN <<>> ELSE <<" ">> \o UpToBlank(Tail(text), n - 1)
         ELSE <<Head(text)>> \o UpToBlank(Tail(text), n)

FirstTwoWords(text) == UpToBlank(text, 2)

---------------------------------------------------------------------------
(* Tariff rows: ENDESA_PX_PATTERN, ENDESA_PV_PATTERN, TOTAL_PV_PATTERN,     *)
(* NUFRI_PX_PATTERN.  A row is a tariff code followed by columns of         *)
(* numbers, each written blank, digits, optional decimals.                  *)

PowerCodes == {"P1", "P2", "P3", "P4", "P5", "P6"}

\* the atoms " 1.18.1" .. " 1.18.6" of the Endesa rows
EndesaRowTags == {" 1.18.1", " 1.18.2", " 1.18.3", " 1.18.4", " 1.18.5", " 1.18.6"}

NoPower == [type |-> None, amount |-> None]

\* the integer part (?:\d{1,3}(?:\.\d{3})*|\d+) from j: where it can stop
IntegerEnds(s, j) == GroupedEnds(s, j) \cup PlainEnds(s, j)

\* one column " <integer>,dd" from i: the position after it, or 0
ColumnEnd(s, i) ==
    LET ok == {e \in IntegerEnds(s, i + 1) :
                  At(s, e) = "," /\ IsDigit(At(s, e + 1)) /\ IsDigit(At(s, e + 2))}
    IN  IF At(s, i) = " " /\ ok # {} THEN (CHOOSE e \in ok : TRUE) + 3 ELSE 0

\* one column " <integer>(,dd)?" from i: every position after it
OptColumnEnds(s, i) ==
    IF At(s, i) # " " THEN {}
    ELSE LET ints == IntegerEnds(s, i + 1)
         IN  ints \cup {e + 3 : e \in {x \in ints :
                 At(s, x) = "," /\ IsDigit(At(s, x + 1)) /\ IsDigit(At(s, x + 2))}}

\* n columns with decimals from i on: [end, last], last being the text of the
\* n-th column (the group's capture); end = 0 when they are not all there
RECURSIVE Columns(_, _, _)
Columns(s, i, n) ==
    LET e == ColumnEnd(s, i)
    IN  IF e = 0 THEN [end |-> 0, last |-> <<>>]
        ELSE IF n = 1 THEN [end |-> e, last |-> SubSeq(s, i, e - 1)]
        ELSE Columns(s, e, n - 1)

\* the positions n columns with optional decimals from the positions in from
\* can stop at
RECURSIVE OptColumns(_, _, _)
OptColumns(s, from, n) ==
    IF n = 0 THEN from
    ELSE OptColumns(s, UNION {OptColumnEnds(s, i) : i \in from}, n - 1)

\* ( col){3}( col){more}: the capture of the first group is its third column.
\* A column holds no blank and the next one starts with one, so the first
\* three columns are the same on every path of the match.
OptRow(s, more) ==
    LET third == {e \in OptColumns(s, {2}, 3) : OptColumns(s, {e}, more) # {}}
    IN  IF At(s, 1) \in PowerCodes /\ third # {}
        THEN LET e == CHOOSE x \in third : TRUE
                 b == CHOOSE x \in OptColumns(s, {2}, 2) : e \in OptColumnEnds(s, x)
             IN  [type |-> Str(<<s[1]>>), amount |-> Str(SubSeq(s, b, e - 1))]
        ELSE NoPower

RenamePower(type) ==
    CASE type = Str(<<"Punta">>) -> Str(<<"P1">>)
      [] type = Str(<<"Llano">>) -> Str(<<"P2">>)
      [] type = Str(<<"Valle">>) -> Str(<<"P3">>)
      [] OTHER -> type

\* _extract_endesa_power(line)
ExtractEndesaPower(line) ==
    LET px == IF At(line, 1) \in PowerCodes /\ At(line, 2) \in EndesaRowTags
              THEN Columns(line, 3, 5)
              ELSE [end |-> 0, last |-> <<>>]
    IN
    IF px.end > 0
    THEN [type |-> Str(<<line[1]>>), amount |-> Str(px.last)]
    ELSE LET ps == {p \in 1..Len(line) :
                       line[p] \in {"Punta", "Llano", "Valle"}
                       /\ Columns(line, p + 1, 5).end > 0}
         IN  IF ps = {} THEN NoPower
             ELSE LET p == CHOOSE x \in ps : \A y \in ps : y <= x
                  IN  [type |-> RenamePower(Str(<<line[p]>>)),
                       amount |-> Str(Columns(line, p + 1, 5).last)]

\* _extract_total_power(line)
ExtractTotalPower(line) == OptRow(line, 6)

\* _extract_nufri_power(line)
ExtractNufriPower(line) == OptRow(line, 3)

SetPower(bill, power) == Put(bill, power.type.v[1], power.amount)

---------------------------------------------------------------------------
(* The provider extractors, one operator per loop body.  Each takes the     *)
(* record built so far and a line and gives the record after the line, or  *)
(* Raised when the statement raises.                                       *)

OwnerMarker == "CAMPANILLA"

\* datetime.strptime(text, "%d de %B de %Y").strftime("%d/%m/%Y")
LongDates == {"01 de febrero de 2024", "05 de marzo de 2024"}

StrptimeLong(text) ==
    IF Len(text) = 1 /\ text[1] \in LongDates
    THEN Str(<<IF text[1] = "01 de febrero de 2024" THEN "01/02/2024" ELSE "05/03/2024">>)
    ELSE Raised

\* datetime.strptime(text, "%d/%m/%Y").strftime("%d/%m/%Y")
ReformatDMY(text) == IF StrptimeDMY(text) = Raised THEN Raised ELSE Str(text)

\* re.match(r".*<label> ([\,0-9]+ €).*", line).group(1): Raised when the
\* pattern does not match (group of None)
NufriAmount(line, label) ==
    LET runEnd(p) ==
            CHOOSE e \in (p + 2)..(Len(line) + 1) :
                /\ \A q \in (p + 2)..(e - 1) : line[q] = "," \/ IsDigit(line[q])
                /\ ~(At(line, e) = "," \/ IsDigit(At(line, e)))
        ps == {p \in 1..Len(line) :
                  /\ line[p] = label
                  /\ At(line, p + 1) = " "
                  /\ runEnd(p) > p + 2
                  /\ At(line, runEnd(p)) = " " /\ At(line, runEnd(p) + 1) = "€"}
    IN  IF ps = {} THEN Raised
        ELSE LET p == CHOOSE x \in ps : \A y \in ps : y <= x
             IN  Str(SubSeq(line, p + 2, runEnd(p) + 1))

\* extract_endesa_bill, lines 276-296
EndesaFirstPageLineKeepFirst(bill, line) ==
    IF Contains(line, OwnerMarker)
    THEN [bill EXCEPT !["is_ours"] = Bool(TRUE)]
    ELSE IF Contains(line, "Nº factura:") \/ Contains(line, "Nº de factura:")
               \/ Contains(line, "Nºfactura:")
    THEN IF bill["bill_id"] # None THEN bill
         ELSE [bill EXCEPT !["bill_id"] = Str(AfterColon(line))]
    ELSE IF Contains(line, "Fecha emisión factura:") \/ Contains(line, "Fechaemisiónfactura:")
    THEN IF bill["billing_date"] # None THEN bill
         ELSE [bill EXCEPT !["billing_date"] = Str(AfterColon(line))]
    ELSE IF Contains(line, "Periodo de facturación:") \/ Contains(line, "Periododefacturación")
    THEN IF bill["billing_period"] # None THEN bill
         ELSE [bill EXCEPT !["billing_period"] = Str(AfterColon(line))]
    ELSE IF StartsWith(line, "Potencia ")
    THEN IF bill["billed_power_capacity"] # None THEN bill
         ELSE [bill EXCEPT !["billed_power_capacity"] = Str(line)]
    ELSE IF StartsWith(line, "Energía ")
    THEN IF bill["billed_energy_consumed"] # None THEN bill
         ELSE [bill EXCEPT !["billed_energy_consumed"] = Str(line)]
    ELSE IF StartsWith(line, "Total ")
    THEN IF bill["billed_amount_0"] # None THEN bill
         ELSE [bill EXCEPT !["billed_amount_0"] = Str(line)]
    ELSE bill

EndesaFirstPageLine(bill, line) ==
    IF Contains(line, OwnerMarker)
    THEN [bill EXCEPT !["is_ours"] = Bool(TRUE)]
    ELSE IF Contains(line, "Nº factura:") \/ Contains(line, "Nº de factura:")
               \/ Contains(line, "Nºfactura:")
    THEN [bill EXCEPT !["bill_id"] = Str(AfterColon(line))]
    ELSE IF Contains(line, "Fecha emisión factura:") \/ Contains(line, "Fechaemisiónfactura:")
    THEN [bill EXCEPT !["billing_date"] = Str(AfterColon(line))]
    ELSE IF Contains(line, "Periodo de facturación:") \/ Contains(line, "Periododefacturación")
    THEN [bill EXCEPT !["billing_period"] = Str(AfterColon(line))]
    ELSE IF StartsWith(line, "Potencia ")
    THEN [bill EXCEPT !["billed_power_capacity"] = Str(line)]
    ELSE IF StartsWith(line, "Energía ")
    THEN [bill EXCEPT !["billed_energy_consumed"] = Str(line)]
    ELSE IF StartsWith(line, "Total ")
    THEN [bill EXCEPT !["billed_amount_0"] = Str(line)]
    ELSE bill

\* extract_endesa_bill, lines 299-310
EndesaSecondPageLine(bill, line) ==
    IF Contains(line, "CUPS")
    THEN [bill EXCEPT !["cups"] = Str(Strip(BeforeFirst(AfterColon(line), {"("})))]
    ELSE LET b1 == IF Contains(line, "TOTAL ")
                   THEN [bill EXCEPT !["billed_amount_1"] = Str(line)]
                   ELSE bill
             power == ExtractEndesaPower(line)
         IN  IF power.type # None THEN SetPower(b1, power) ELSE b1

\* extract_endesa_bill, lines 315-318
EndesaThirdPageLine(bill, line) ==
    LET power == ExtractEndesaPower(line)
    IN  IF power.type # None THEN SetPower(bill, power) ELSE bill

\* extract_total_bill, lines 218-244
TotalFirstPageLine(bill, line) ==
    IF Contains(line, OwnerMarker)
    THEN [bill EXCEPT !["is_ours"] = Bool(TRUE)]
    ELSE IF Contains(line, "Nº Factura")
    THEN [bill EXCEPT !["bill_id"] = Str(LastWord(line))]
    ELSE IF Contains(line, "Fecha emisión factura:")
    THEN IF StrptimeLong(AfterColon(line)) = Raised THEN Raised
         ELSE [bill EXCEPT !["billing_date"] = StrptimeLong(AfterColon(line))]
    ELSE IF Contains(line, "Periodo de facturación:")
    THEN [bill EXCEPT !["billing_period"] = Str(AfterColon(line))]
    ELSE IF StartsWith(line, "Potencia ")
    THEN [bill EXCEPT !["billed_power_capacity"] = Str(line)]
    ELSE IF StartsWith(line, "Energía ")
    THEN [bill EXCEPT !["billed_energy_consumed"] = Str(line)]
    ELSE IF StartsWith(line, "TOTAL ")
    THEN [bill EXCEPT !["billed_amount_0"] = Str(line),
                      !["billed_amount_1"] = Str(line)]
    ELSE IF Contains(line, "(CUPS):")
    THEN [bill EXCEPT !["cups"] = Str(AfterColon(line))]
    ELSE bill

\* extract_total_bill, lines 247-251
TotalSecondPageLine(bill, line) ==
    LET power == ExtractTotalPower(line)
    IN  IF power.type # None THEN SetPower(bill, power) ELSE bill

\* extract_nufri_bill, lines 176-194: the statements without a continue
\* before them, in order; a Raised stops the line
NufriLineRest(bill, line) ==
    LET b1 == IF Contains(line, "Periodo de Consumo:")
              THEN [bill EXCEPT !["billing_period"] = Str(AfterColon(line))]
              ELSE bill
        cap == NufriAmount(line, "Por Potencia Contratada")
        b2 == IF Contains(line, "Por Potencia Contratada")
              THEN IF cap = Raised THEN Raised
                   ELSE [b1 EXCEPT !["billed_power_capacity"] = cap]
              ELSE b1
        energy == NufriAmount(line, "Por Energía Consumida")
        b3 == IF b2 = Raised THEN Raised
              ELSE IF Contains(line, "Por Energía Consumida")
              THEN IF energy = Raised THEN Raised
                   ELSE [b2 EXCEPT !["billed_energy_consumed"] = energy]
              ELSE b2
        amount == NufriAmount(line, "Total Factura")
        power == ExtractNufriPower(line)
    IN  IF b3 = Raised THEN Raised
        ELSE IF Contains(line, "Total Factura")
        THEN IF amount = Raised THEN Raised
             ELSE [b3 EXCEPT !["billed_amount_0"] = amount,
                             !["billed_amount_1"] = amount]
        ELSE IF StartsWith(line, "CUPS:")
        THEN [b3 EXCEPT !["cups"] = Str(AfterColon(line))]
        ELSE IF StartsWith(line, "P") /\ power.type # None
        THEN SetPower(b3, power)
        ELSE b3

\* extract_nufri_bill, lines 165-194
NufriLine(bill, line) ==
    IF Contains(line, OwnerMarker)
    THEN [bill EXCEPT !["is_ours"] = Bool(TRUE)]
    ELSE IF Contains(line, "Nº de Factura:")
    THEN [bill EXCEPT !["bill_id"] = Str(FirstTwoWords(AfterColon(line)))]
    ELSE IF Contains(line, "Fecha de Factura:")
    THEN IF ReformatDMY(AfterColon(line)) = Raised THEN Raised
         ELSE [bill EXCEPT !["billing_date"] = ReformatDMY(AfterColon(line))]
    ELSE NufriLineRest(bill, line)

\* the body of the loop named by kind, applied to one line
LineStep(kind, bill, line) ==
    CASE kind = "endesa1" -> EndesaFirstPageLine(bill, line)
      [] kind = "endesa2" -> EndesaSecondPageLine(bill, line)
      [] kind = "endesa3" -> EndesaThirdPageLine(bill, line)
      [] kind = "total1" -> TotalFirstPageLine(bill, line)
      [] kind = "total2" -> TotalSecondPageLine(bill, line)
      [] kind = "nufri1" -> NufriLine(bill, line)

\* for line in page.extract_text().split('\n'): <body>
RECURSIVE ScanLines(_, _, _)
ScanLines(kind, bill, lines) ==
    With(<<bill, lines>>,
         LAMBDA at : IF at[2] = <<>> \/ at[1] = Raised THEN at[1]
                     ELSE ScanLines(kind, LineStep(kind, at[1], Head(at[2])), Tail(at[2])))

\* the checks that end the three extractors (lines 196-202, 253-259, 320-326)
ReturnBill(bill) ==
    With(bill,
         LAMBDA b : IF b = Raised THEN Raised
                    ELSE IF b["is_ours"] # Bool(TRUE) THEN None
                    ELSE IF ~Has(b, "P1") THEN None
                    ELSE b)

\* a third-page test that looks for any tariff code instead of P1
ScansThirdPageWithoutAnyTariff(bill, pages) ==
    (\A n \in 1..Len(PowerTypes) : ~Has(bill, PowerTypes[n])) /\ pages > 2

\* lines 312-313: whether the third page is scanned, given the record at the
\* end of the second page and len(pdf.pages)
ScansThirdPage(bill, pages) == ~Has(bill, "P1") /\ pages > 2

\* extract_endesa_bill(file, pdf), pages being pdf.pages; pdf.pages[1] raises
\* IndexError on a one-page document
ExtractEndesaBill(pages) ==
    IF Len(pages) < 2 THEN Raised
    ELSE ReturnBill(
             With(ScanLines("endesa2", ScanLines("endesa1", DefaultBillInfo, pages[1]),
                            pages[2]),
                  LAMBDA b2 : IF ScansThirdPage(b2, Len(pages))
                              THEN ScanLines("endesa3", b2, pages[3])
                              ELSE b2))

\* extract_total_bill(file, pdf)
ExtractTotalBill(pages) ==
    With(ScanLines("total1", DefaultBillInfo, pages[1]),
         LAMBDA b1 : IF b1 = Raised \/ Len(pages) < 2 THEN Raised
                     ELSE ReturnBill(ScanLines("total2", b1, pages[2])))

\* extract_nufri_bill(file, pdf)
ExtractNufriBill(pages) == ReturnBill(ScanLines("nufri1", DefaultBillInfo, pages[1]))

---------------------------------------------------------------------------
(* extract_dispatcher *)

\* the names that resolve to a callable extractor in globals()
ExtractorNames == {"extract_endesa_bill", "extract_nufri_bill", "extract_total_bill"}

Resolvable(extractor) == extractor \in ExtractorNames

\* globals()[extractor](file, pdf)
Invoke(extractor, pages) ==
    CASE extractor = "extract_endesa_bill" -> ExtractEndesaBill(pages)
      [] extractor = "extract_nufri_bill" -> ExtractNufriBill(pages)
      [] extractor = "extract_total_bill" -> ExtractTotalBill(pages)

\* dispatcher in first_page
PageContains(page, marker) == \E n \in 1..Len(page) : Contains(page[n], marker)

\* the loop over dispatchers.items() from entry i on: what is returned (or
\* Raised), and the extractor that was invoked ("" when none was).  A variant
\* that resolves the identifier only once its marker has matched comes first.
RECURSIVE DispatchFromResolvingOnMatch(_, _, _)
DispatchFromResolvingOnMatch(table, i, pages) ==
    IF i > Len(table) THEN [result |-> None, invoked |-> ""]
    ELSE IF PageContains(pages[1], table[i].marker)
    THEN IF ~Resolvable(table[i].extractor)
         THEN [result |-> Raised, invoked |-> ""]
         ELSE [result |-> Invoke(table[i].extractor, pages),
               invoked |-> table[i].extractor]
    ELSE DispatchFromResolvingOnMatch(table, i + 1, pages)

\* a variant that takes the last matching entry instead of the first
RECURSIVE DispatchFromLastMatch(_, _, _)
DispatchFromLastMatch(table, i, pages) ==
    LET rest == IF i >= Len(table) THEN [result |-> None, invoked |-> ""]
                ELSE DispatchFromLastMatch(table, i + 1, pages)
    IN  IF i > Len(table) THEN [result |-> None, invoked |-> ""]
        ELSE IF ~Resolvable(table[i].extractor)
        THEN [result |-> Raised, invoked |-> ""]
        ELSE IF rest.invoked # "" \/ rest.result = Raised THEN rest
        ELSE IF PageContains(pages[1], table[i].marker)
        THEN [result |-> Invoke(table[i].extractor, pages),
              invoked |-> table[i].extractor]
        ELSE rest

RECURSIVE DispatchFrom(_, _, _)
DispatchFrom(table, i, pages) ==
    IF i > Len(table) THEN [result |-> None, invoked |-> ""]
    ELSE IF ~Resolvable(table[i].extractor)
    THEN [result |-> Raised, invoked |-> ""]
    ELSE IF PageContains(pages[1], table[i].marker)
    THEN [result |-> Invoke(table[i].extractor, pages),
          invoked |-> table[i].extractor]
    ELSE DispatchFrom(table, i + 1, pages)

\* extract_dispatcher(dispatchers, file)
ExtractDispatcher(table, pages) == DispatchFrom(table, 1, pages)

\* lines 114-119 of the batch loop for one file: "raised" when an exception
\* leaves the loop, "skipped" on continue, else "insert" with the record
FileResult(table, pages) ==
    With(ExtractDispatcher(table, pages),
         LAMBDA d :
             IF d.result = Raised
             THEN [outcome |-> "raised", invoked |-> d.invoked, bill_info |-> None]
             ELSE IF d.result = None
             THEN [outcome |-> "skipped", invoked |-> d.invoked, bill_info |-> None]
             ELSE With(SanitizeBill(d.result),
                       LAMBDA sane :
                           IF ~sane.returned
                           THEN [outcome |-> "skipped", invoked |-> d.invoked,
                                 bill_info |-> None]
                           ELSE [outcome |-> "insert", invoked |-> d.invoked,
                                 bill_info |-> sane.data]))

---------------------------------------------------------------------------
(* generate_bill_report *)

\* sheet_names.get(cups, cups), sheet_names being a list of [cups, title]
SheetTitle(names, cups) ==
    LET hits == {n \in 1..Len(names) : names[n].cups = cups}
    IN  IF hits = {} THEN cups ELSE names[CHOOSE n \in hits : TRUE].title

\* wb.active, titled at line 479; it holds no bill
FirstSheet == [title |-> <<"Simulación">>, bill_ids |-> {}]

\* lines 485-495: one sheet per supply point, in the order of the dict
CreatedSheets(dict, keys, names) ==
    [n \in 1..Len(keys) |->
        [title |-> SheetTitle(names, keys[n]),
         bill_ids |-> DOMAIN dict[keys[n]]]]

\* lines 497-500: the created sheets whose title is a configured one, in the
\* order of the configured titles
RECURSIVE OrderedSheets(_, _, _)
OrderedSheets(created, names, n) ==
    IF n > Len(names) THEN <<>>
    ELSE LET hits == {c \in 1..Len(created) : created[c].title = names[n].title}
         IN  (IF hits = {} THEN <<>> ELSE <<created[CHOOSE c \in hits : TRUE]>>)
                 \o OrderedSheets(created, names, n + 1)

\* wb._sheets after line 503
WorkbookSheets(dict, keys, names) ==
    LET created == CreatedSheets(dict, keys, names)
        ordered == OrderedSheets(created, names, 1)
    IN  <<FirstSheet>> \o (IF Len(ordered) = 0 THEN created ELSE ordered)

---------------------------------------------------------------------------
(* Texts of the documents *)

Chars1000 == <<"1", "0", ",", "0", "0", " ", "€">>
Chars1000Plus == <<"+", "1", "0", ",", "0", "0", "€">>
Chars1250 == <<"1", "2", ",", "5", "0", " ", "€">>
CharsNoSymbol == <<"1", "0", ",", "0", "0">>
Row700 == <<" ", "7", ",", "0", "0">>
Row66 == <<" ", "6", "6">>

---------------------------------------------------------------------------
(* SpecExtract: extract_endesa_bill and extract_total_bill, one line of a   *)
(* page at a time.  The document is revealed as it is scanned: each step    *)
(* scans one more line of the current page, drawn from the lines of that   *)
(* layout, or ends the page.  At most MaxLines lines are scanned.          *)

Col(a, b) == <<" ", a, ",", b, "0">>

EndesaRow(code, tag, price) ==
    <<code, tag>> \o Col("1", "0") \o Col("2", "0") \o Col("1", "0") \o Col("0", "0") \o price

PuntaRow(head, code, price) ==
    head \o <<code>> \o Col("1", "0") \o Col("2", "0") \o Col("1", "0") \o Col("0", "0") \o price

TotalRow(code, third) ==
    <<code>> \o <<" ", "5", "9", "3">> \o <<" ", "6", "6", "5">> \o third
        \o <<" ", "0">> \o <<" ", "6", "6">> \o <<" ", "6", "6">>
        \o <<" ", "0">> \o Col("0", "0") \o Col("3", "8")

NufriRow(code, third) ==
    <<code>> \o <<" ", "5", "9", "3">> \o <<" ", "6", "6", "5">> \o third
        \o <<" ", "0">> \o <<" ", "0">> \o Col("3", "8")

OwnerLine == <<"Titular", " ", "CAMPANILLA", " ", "SL">>

Period1 == <<"01/02/2024", " ", "-", " ", "29/02/2024">>
Period2 == <<"29/02/2024", " ", "-", " ", "05/03/2024">>

EndesaFirstPageLines ==
    { OwnerLine,
      <<"Nº factura:", " ", "F1">>, <<"Nºfactura:", "F2">>,
      <<"Fecha emisión factura:", " ", "01/02/2024">>,
      <<"Fechaemisiónfactura:", "05/03/2024">>,
      <<"Periodo de facturación:", " ">> \o Period1,
      <<"Periododefacturación", ":">> \o Period2,
      <<"Potencia ">> \o Chars1000, <<"Potencia ">> \o Chars1250,
      <<"Energía ">> \o Chars1000, <<"Energía ">> \o Chars1250,
      <<"Total ">> \o Chars1000, <<"Total ">> \o Chars1250 }

EndesaSecondPageLines ==
    { <<"CUPS", ":", " ", "ES01", " ", "(", "luz", ")">>, <<"CUPS", ":", " ", "ES02">>,
      <<"TOTAL ">> \o Chars1000, <<"TOTAL ">> \o Chars1250,
      EndesaRow("P1", " 1.18.1", Col("7", "0")),
      EndesaRow("P1", " 1.18.1", Col("9", "0")),
      EndesaRow("P2", " 1.18.2", Col("7", "0")),
      PuntaRow(<<"TOTAL ">> \o Chars1000 \o <<" ">>, "Punta", Col("8", "0")) }

EndesaThirdPageLines ==
    { EndesaRow("P1", " 1.18.1", Col("7", "0")),
      PuntaRow(<<>>, "Punta", Col("8", "0")),
      PuntaRow(<<>>, "Llano", Col("9", "0")) }

TotalFirstPageLines ==
    { OwnerLine,
      <<"Nº Factura", " ", "T1">>, <<"Nº Factura", " ", "T2">>,
      <<"Fecha emisión factura:", " ", "01 de febrero de 2024">>,
      <<"Fecha emisión factura:", " ", "05 de marzo de 2024">>,
      <<"Periodo de facturación:", " ">> \o Period1,
      <<"Periodo de facturación:", " ">> \o Period2,
      <<"Potencia ">> \o Chars1000, <<"Potencia ">> \o Chars1250,
      <<"Energía ">> \o Chars1000, <<"Energía ">> \o Chars1250,
      <<"TOTAL ">> \o Chars1000, <<"TOTAL ">> \o Chars1250,
      <<"(CUPS):", " ", "ES01">>, <<"(CUPS):", " ", "ES02">> }

TotalSecondPageLines ==
    { TotalRow("P1", <<" ", "7", "2">>), TotalRow("P1", Col("7", "1")),
      TotalRow("P2", <<" ", "7", "2">>) }

NufriFirstPageLines ==
    { OwnerLine,
      <<"Nº de Factura:", " ", "N1", " ", "A", " ", "de", " ", "venta">>,
      <<"Fecha de Factura:", " ", "01/02/2024">>,
      <<"Total Factura", " ">> \o Chars1000,
      <<"CUPS:", " ", "ES01">>,
      NufriRow("P1", <<" ", "7", "2">>), NufriRow("P1", Col("7", "1")),
      NufriRow("P2", <<" ", "7", "2">>) }

\* len(pdf.pages) of the documents that are scanned
PageCounts == {2, 3}

PageLines(kind) ==
    CASE kind = "endesa1" -> EndesaFirstPageLines
      [] kind = "endesa2" -> EndesaSecondPageLines
      [] kind = "endesa3" -> EndesaThirdPageLines
      [] kind = "total1" -> TotalFirstPageLines
      [] kind = "total2" -> TotalSecondPageLines
      [] kind = "nufri1" -> NufriFirstPageLines

\* the keys set in the record r a line gives when it is scanned alone
CapturedKeys(r) ==
    IF r = Raised THEN {}
    ELSE {k \in DOMAIN r \ {"is_ours", "is_rectification"} :
             ~Has(DefaultBillInfo, k) \/ r[k] # DefaultBillInfo[k]}

ExtractInit ==
    /\ BatchIdle
    /\ AmountIdle
    /\ SanitizeIdle
    /\ xStage \in {"endesa1", "total1", "nufri1"}
    /\ xPages \in PageCounts
    /\ xBill = DefaultBillInfo
    /\ xScanned = 0
    /\ xFirst = <<>>
    /\ xLast = <<>>
    /\ xOut = Pending

\* one iteration of the loop over the lines of the current page
ExtractScanLine ==
    /\ xStage \in {"endesa1", "endesa2", "endesa3", "total1", "total2", "nufri1"}
    /\ xBill # Raised
    /\ xScanned < MaxLines
    /\ \E line \in PageLines(xStage) :
        LET alone == LineStep(xStage, DefaultBillInfo, line)
            keys == CapturedKeys(alone)
        IN  /\ xBill' = LineStep(xStage, xBill, line)
            /\ xLast' = [k \in DOMAIN xLast \cup keys |->
                            IF k \in keys THEN alone[k] ELSE xLast[k]]
            /\ xFirst' = [k \in DOMAIN xFirst \cup keys |->
                            IF k \in DOMAIN xFirst THEN xFirst[k] ELSE alone[k]]
    /\ xScanned' = xScanned + 1
    /\ UNCHANGED <<xStage, xPages, xOut>>
    /\ UNCHANGED <<amountVars, sanitizeVars, batchVars>>

\* the loop over a page ends and the next page, if the code reads one, begins
ExtractNextPage ==
    /\ xBill # Raised
    /\ \/ xStage = "endesa1" /\ xStage' = "endesa2"
       \/ xStage = "total1" /\ xStage' = "total2"
       \/ xStage = "endesa2" /\ ScansThirdPage(xBill, xPages) /\ xStage' = "endesa3"
    /\ UNCHANGED <<xPages, xBill, xScanned, xFirst, xLast, xOut>>
    /\ UNCHANGED <<amountVars, sanitizeVars, batchVars>>

\* the last page the code reads ends and the extractor returns
ExtractReturn ==
    /\ \/ xStage = "endesa2" /\ ~ScansThirdPage(xBill, xPages)
       \/ xStage \in {"endesa3", "total2", "nufri1"}
    /\ xOut' = ReturnBill(xBill)
    /\ xStage' = "done"
    /\ UNCHANGED <<xPages, xBill, xScanned, xFirst, xLast>>
    /\ UNCHANGED <<amountVars, sanitizeVars, batchVars>>

ExtractNext == ExtractScanLine \/ ExtractNextPage \/ ExtractReturn

SpecExtract == ExtractInit /\ [][ExtractNext]_vars

---------------------------------------------------------------------------
(* The documents of the batch run.  A document is [provider, defect, pages]; *)
(* the code reads the pages only, provider and defect say how the document  *)
(* was written.                                                            *)

Opt(present, line) == IF present THEN <<line>> ELSE <<>>

DateLine(label, defect, good, bad) ==
    Opt(defect # "no_date", <<label, " ", IF defect = "bad_date" THEN bad ELSE good>>)

PeriodLine(label, defect) ==
    Opt(defect # "no_period",
        <<label, " ">> \o (IF defect = "bad_period" THEN <<"01/02/2024">> ELSE Period1))

EndesaPages(id, cups, defect) ==
    << <<<<"ENDESA">>>>
           \o Opt(defect # "no_owner", OwnerLine)
           \o <<<<"Nº factura:", " ", id>>>>
           \o DateLine("Fecha emisión factura:", defect, "01/02/2024", "31/02/2024")
           \o PeriodLine("Periodo de facturación:", defect)
           \o <<<<"Potencia ">> \o Chars1000, <<"Energía ">> \o Chars1250>>
           \o Opt(defect # "no_amount",
                  <<"Total ">> \o (IF defect = "bad_amount" THEN CharsNoSymbol ELSE Chars1000)),
       <<<<"CUPS", ":", " ", cups>>,
         <<"TOTAL ">> \o (IF defect = "rectified" THEN Chars1250 ELSE Chars1000)>>
           \o Opt(defect # "no_tariff", EndesaRow("P1", " 1.18.1", Col("7", "0")))
           \o Opt(defect # "no_tariff", EndesaRow("P2", " 1.18.2", Col("8", "0")))
           \o Opt(defect \notin {"no_tariff", "no_p3"},
                  EndesaRow("P3", " 1.18.3", Col("9", "0"))) >>

TotalPages(id, cups, defect, mention) ==
    << <<<<"TotalEnergies">>>>
           \o mention
           \o Opt(defect # "no_owner", OwnerLine)
           \o <<<<"Nº Factura", " ", id>>>>
           \o DateLine("Fecha emisión factura:", defect, "01 de febrero de 2024",
                       "31 de febrero de 2024")
           \o PeriodLine("Periodo de facturación:", defect)
           \o <<<<"Potencia ">> \o Chars1000, <<"Energía ">> \o Chars1250>>
           \o Opt(defect # "no_amount",
                  <<"TOTAL ">> \o (IF defect = "bad_amount" THEN CharsNoSymbol ELSE Chars1000))
           \o <<<<"(CUPS):", " ", cups>>>>,
       Opt(defect # "no_tariff", TotalRow("P1", <<" ", "7", "2">>))
           \o Opt(defect # "no_tariff", TotalRow("P2", <<" ", "7", "3">>))
           \o Opt(defect \notin {"no_tariff", "no_p3"}, TotalRow("P3", Col("7", "1"))) >>

NufriPages(id, cups, defect) ==
    << <<<<"NUFRI">>>>
           \o Opt(defect # "no_owner", OwnerLine)
           \o <<<<"Nº de Factura:", " ", id, " ", "A", " ", "de", " ", "venta">>>>
           \o DateLine("Fecha de Factura:", defect, "01/02/2024", "31/02/2024")
           \o PeriodLine("Periodo de Consumo:", defect)
           \o <<<<"Por Potencia Contratada", " ">> \o Chars1000,
                <<"Por Energía Consumida", " ">> \o Chars1250>>
           \o Opt(defect # "no_amount",
                  <<"Total Factura", " ">>
                      \o (IF defect = "bad_amount" THEN CharsNoSymbol ELSE Chars1000))
           \o <<<<"CUPS:", " ", cups>>>>
           \o Opt(defect # "no_tariff", NufriRow("P1", <<" ", "7", "2">>))
           \o Opt(defect # "no_tariff", NufriRow("P2", <<" ", "7", "3">>))
           \o Opt(defect \notin {"no_tariff", "no_p3"}, NufriRow("P3", Col("7", "1"))) >>

Document(provider, defect, pages) ==
    [provider |-> provider, defect |-> defect, pages |-> pages]

\* the ways a document can be unusable on its own
Defects ==
    <<"no_owner", "no_date", "bad_date", "no_period", "bad_period", "no_amount",
      "bad_amount", "no_tariff", "no_p3">>

GoodDocuments ==
    << Document("endesa", "", EndesaPages("F1", "ES01", "")),
       Document("endesa", "", EndesaPages("F2", "ES01", "")),
       Document("endesa", "", EndesaPages("F1", "ES02", "")),
       Document("endesa", "", EndesaPages("F1", "ES01", "rectified")),
       Document("total", "", TotalPages("F1", "ES01", "", <<>>)),
       Document("total", "", <<TotalPages("T2", "ES03", "", <<>>)[1],
                                TotalPages("T2", "ES03", "", <<>>)[2]
                                    \o <<TotalRow("P4", Col("7", "4"))>>>>),
       Document("total", "", TotalPages("T3", "ES02", "", <<<<"Distribuidora", " ", "ENDESA">>>>)),
       Document("nufri", "", NufriPages("N1", "ES02", "")),
       Document("nufri", "", NufriPages("N2", "ES03", "")) >>

DefectiveDocuments ==
    [n \in 1..(3 * Len(Defects)) |->
        LET defect == Defects[((n - 1) % Len(Defects)) + 1]
        IN  CASE n <= Len(Defects) ->
                   Document("endesa", defect, EndesaPages("F1", "ES01", defect))
              [] n > Len(Defects) /\ n <= 2 * Len(Defects) ->
                   Document("total", defect, TotalPages("F1", "ES01", defect, <<>>))
              [] OTHER ->
                   Document("nufri", defect, NufriPages("N1", "ES02", defect))]

\* a bill of a provider no marker of the table names
UnknownDocuments ==
    << Document("", "no_marker", <<Tail(EndesaPages("F1", "ES01", "")[1]),
                                    EndesaPages("F1", "ES01", "")[2]>>) >>

Catalogue == GoodDocuments \o DefectiveDocuments \o UnknownDocuments

---------------------------------------------------------------------------
(* Spec: one run of main.  The arguments are fixed when the run starts; the *)
(* directory is listed when extract_bill_information starts; each step of  *)
(* the loop takes the next file of the list, whose content is any document *)
(* of the catalogue.                                                       *)

Entry(marker, extractor) == [marker |-> marker, extractor |-> extractor]

\* the tables of defaults.yaml the runs are checked with: the three
\* providers in two orders, and two tables naming an extractor that does
\* not exist
DispatchTables ==
    { <<Entry("ENDESA", "extract_endesa_bill"), Entry("NUFRI", "extract_nufri_bill"),
        Entry("TotalEnergies", "extract_total_bill")>>,
      <<Entry("TotalEnergies", "extract_total_bill"), Entry("NUFRI", "extract_nufri_bill"),
        Entry("ENDESA", "extract_endesa_bill")>>,
      <<Entry("ENDESA", "extract_endesa_bill"), Entry("NUFRI", "extract_nufri_invoice"),
        Entry("TotalEnergies", "extract_total_bill")>>,
      <<Entry("ENDESA", "extract_endesa_bill"), Entry("TotalEnergies", "extract_total_bill"),
        Entry("NUFRI", "extract_nufri_invoice")>> }

SheetName(cups, title) == [cups |-> <<cups>>, title |-> <<title>>]

SheetNameTables ==
    { <<>>,
      <<SheetName("ES01", "Casa")>>,
      <<SheetName("ES02", "Local"), SheetName("ES01", "Casa")>> }

Limits == {-1, 2}

\* lines 114-119 for every document of the catalogue under a table
FileResults(table) == [d \in 1..Len(Catalogue) |-> FileResult(table, Catalogue[d].pages)]

Min(a, b) == IF a < b THEN a ELSE b

\* basename(file) of the n-th file of the list
FileName(n) == Str(<<"bill", ToString(n), ".pdf">>)

\* lines 120-125, keeping a record already stored under the key
InsertKeepingFirst(dict, bill_info, file) ==
    LET cups == bill_info["cups"].v
        bill_id == bill_info["bill_id"].v
        of_cups == IF Has(dict, cups) THEN dict[cups] ELSE EmptyDict
    IN  IF Has(of_cups, bill_id) THEN dict
        ELSE Put(dict, cups, Put(of_cups, bill_id, Put(bill_info, "file", file)))

\* lines 120-125
Insert(dict, bill_info, file) ==
    LET cups == bill_info["cups"].v
        bill_id == bill_info["bill_id"].v
        of_cups == IF Has(dict, cups) THEN dict[cups] ELSE EmptyDict
    IN  Put(dict, cups, Put(of_cups, bill_id, Put(bill_info, "file", file)))

\* an exit status that takes no return value of main for a success
ExitStatusNeverZero(returned) == IF returned = None THEN 1 ELSE returned.v

\* sys.exit(main()): the exit status given what main returned, None being 0
ExitStatus(returned) == IF returned = None THEN 0 ELSE returned.v

Init ==
    /\ AmountIdle
    /\ SanitizeIdle
    /\ ExtractIdle
    /\ pc = "main"
    /\ dispatchers \in DispatchTables
    /\ outcomes = FileResults(dispatchers)
    /\ sheet_names \in SheetNameTables
    /\ limit \in Limits
    /\ files = 0
    /\ processed = 0
    /\ bills = EmptyDict
    /\ order = <<>>
    /\ last = NoFile
    /\ error = ""
    /\ result = Pending
    /\ workbook = <<>>

\* main up to the loop of extract_bill_information (lines 44-110)
Start ==
    /\ pc = "main"
    /\ \E locale_set \in BOOLEAN, isdir \in BOOLEAN, found \in 0..MaxFiles :
          IF ~locale_set
          THEN /\ error' = "exception"
               /\ result' = Num(1)
               /\ pc' = "exit"
               /\ UNCHANGED files
          ELSE IF ~isdir \/ found = 0
          THEN /\ error' = (IF ~isdir THEN "no_directory" ELSE "no_files")
               /\ result' = Num(1)
               /\ pc' = "exit"
               /\ UNCHANGED files
          ELSE /\ files' = (IF limit > 0 THEN Min(found, limit) ELSE found)
               /\ pc' = "loop"
               /\ UNCHANGED <<error, result>>
    /\ UNCHANGED <<dispatchers, sheet_names, limit, processed, bills, order, outcomes, last,
                   workbook>>
    /\ UNCHANGED <<amountVars, sanitizeVars, extractVars>>

\* one iteration of the loop (lines 113-125), and main's handler when it raises
ProcessFile ==
    /\ pc = "loop"
    /\ processed < files
    /\ processed' = processed + 1
    /\ \E d \in 1..Len(Catalogue) :
          LET r == outcomes[d]
              key == <<r.bill_info["cups"].v, r.bill_info["bill_id"].v>>
          IN  CASE r.outcome = "raised" ->
                     /\ last' = [doc |-> d, outcome |-> "raised", invoked |-> r.invoked,
                                 replaced |-> FALSE]
                     /\ error' = "exception"
                     /\ result' = Num(1)
                     /\ pc' = "exit"
                     /\ UNCHANGED <<bills, order>>
                [] r.outcome = "skipped" ->
                     /\ last' = [doc |-> d, outcome |-> "skipped", invoked |-> r.invoked,
                                 replaced |-> FALSE]
                     /\ UNCHANGED <<bills, order, error, result, pc>>
                [] r.outcome = "insert" ->
                     /\ last' = [doc |-> d, outcome |-> "inserted", invoked |-> r.invoked,
                                 replaced |-> Has(bills, key[1]) /\ Has(bills[key[1]], key[2])]
                     /\ bills' = Insert(bills, r.bill_info, FileName(processed + 1))
                     /\ order' = (IF Has(bills, key[1]) THEN order ELSE Append(order, key[1]))
                     /\ UNCHANGED <<error, result, pc>>
    /\ UNCHANGED <<dispatchers, sheet_names, limit, files, outcomes, workbook>>
    /\ UNCHANGED <<amountVars, sanitizeVars, extractVars>>

\* generate_bill_report (line 127), then main returns; wb.save can raise
Report ==
    /\ pc = "loop"
    /\ processed = files
    /\ \E saved \in BOOLEAN :
          IF saved
          THEN /\ workbook' = WorkbookSheets(bills, order, sheet_names)
               /\ result' = None
               /\ UNCHANGED error
          ELSE /\ error' = "exception"
               /\ result' = Num(1)
               /\ UNCHANGED workbook
    /\ pc' = "exit"
    /\ UNCHANGED <<dispatchers, sheet_names, limit, files, processed, bills, order, outcomes,
                   last>>
    /\ UNCHANGED <<amountVars, sanitizeVars, extractVars>>

Next == Start \/ ProcessFile \/ Report

Spec == Init /\ [][Next]_vars

---------------------------------------------------------------------------
(* SpecSanitize: sanitize_bill applied to bounded raw records.  The raw     *)
(* records are those an extractor can return: built on the default record, *)
(* ownership set, P1 captured.                                             *)

RawBillIds == {None, Str(<<" ">>), Str(<<"F1">>)}
RawCups == {None, Str(<<"ES01">>)}
RawDates == {None, Str(<<"01/02/2024">>), Str(<<"31/02/2024">>)}
RawPeriods ==
    { None,
      Str(<<"01/02/2024", " ", "-", " ", "29/02/2024">>),
      Str(<<"01/02/2024">>),
      Str(<<"01/02/2024", " ", "-", " ", "31/02/2024">>) }
RawCapacities ==
    { None, Str(<<"Potencia ">> \o Chars1000), Str(<<"Potencia ">> \o CharsNoSymbol) }
RawEnergies ==
    { Str(<<"Energía ">> \o Chars1250),
      Str(<<"Energía ">> \o Chars1250 \o <<" ">> \o Chars1000) }
RawAmounts0 ==
    { None, Str(<<"Total ">> \o Chars1000), Str(<<"Total ">> \o Chars1250),
      Str(<<"Total ">>) }
RawAmounts1 ==
    { Str(<<"TOTAL ">> \o Chars1000), Str(<<"TOTAL ">> \o Chars1000Plus),
      Str(<<"TOTAL ">> \o Chars1250) }
RawPowerSets ==
    { {"P1"}, {"P1", "P2"}, {"P1", "P3"}, {"P1", "P2", "P3"},
      {"P1", "P2", "P3", "P4", "P5", "P6"} }

RawRecord(id, cups, date, period, cap, energy, a0, a1, powers) ==
    [k \in DOMAIN DefaultBillInfo \cup powers |->
        CASE k = "is_ours" -> Bool(TRUE)
          [] k = "bill_id" -> id
          [] k = "cups" -> cups
          [] k = "billing_date" -> date
          [] k = "billing_period" -> period
          [] k = "billed_power_capacity" -> cap
          [] k = "billed_energy_consumed" -> energy
          [] k = "billed_amount_0" -> a0
          [] k = "billed_amount_1" -> a1
          [] k = "is_rectification" -> DefaultBillInfo[k]
          [] k \in {"P1", "P4"} -> Str(Row700)
          [] OTHER -> Str(Row66)]

SanitizeInit ==
    /\ BatchIdle
    /\ AmountIdle
    /\ ExtractIdle
    /\ \E id \in RawBillIds, cups \in RawCups, date \in RawDates,
          period \in RawPeriods, cap \in RawCapacities, energy \in RawEnergies,
          a0 \in RawAmounts0, a1 \in RawAmounts1, powers \in RawPowerSets :
            sRaw = RawRecord(id, cups, date, period, cap, energy, a0, a1, powers)
    /\ sOut = Pending

SanitizeApply ==
    /\ sOut = Pending
    /\ sOut' = SanitizeBill(sRaw)
    /\ UNCHANGED sRaw
    /\ UNCHANGED <<amountVars, extractVars, batchVars>>

SanitizeNext == SanitizeApply

SpecSanitize == SanitizeInit /\ [][SanitizeNext]_vars

---------------------------------------------------------------------------
(* SpecAmount: _extract_billed_amount applied to bounded lines.  A line is *)
(* a concatenation of at most MaxPieces pieces.                            *)

AmountPieces ==
    { <<"7", ",", "5", "0", " ", "€">>,                        \* 7,50 €
      <<"-", "1", ".", "2", "3", "4", ",", "5", "0", "€">>,     \* -1.234,50€
      <<"7", ",", "5", "0">>,                                   \* 7,50 (no symbol)
      <<"Total ", "1", "2", "3", "4">>,                         \* Total 1234
      <<".", "5", "6", "7">>,                                   \* .567
      <<",", "8", "9">>,                                        \* ,89
      <<" ", "€">>,
      <<"€">>,
      <<" ">> }

AmountInit ==
    /\ BatchIdle
    /\ AmountIdle
    /\ SanitizeIdle
    /\ ExtractIdle

AmountAppend ==
    /\ aOut = Pending
    /\ aPieces < MaxPieces
    /\ \E p \in AmountPieces : aLine' = aLine \o p
    /\ aPieces' = aPieces + 1
    /\ UNCHANGED aOut
    /\ UNCHANGED <<sanitizeVars, extractVars, batchVars>>

AmountParse ==
    /\ aOut = Pending
    /\ aOut' = ExtractBilledAmount(aLine)
    /\ UNCHANGED <<aLine, aPieces>>
    /\ UNCHANGED <<sanitizeVars, extractVars, batchVars>>

AmountNext == AmountAppend \/ AmountParse

SpecAmount == AmountInit /\ [][AmountNext]_vars

---------------------------------------------------------------------------
(* The file taken last by the loop of Spec, as the claims below read it *)

TookFile == last.doc # 0

\* per document of the catalogue, the configured markers its first page holds
MarkersOf ==
    [d \in 1..Len(Catalogue) |->
        {marker \in {table[i].marker : table \in DispatchTables, i \in 1..3} :
            PageContains(Catalogue[d].pages[1], marker)}]

\* the entries of the table whose marker is in the first page of that file
Matching == {i \in 1..Len(dispatchers) : dispatchers[i].marker \in MarkersOf[last.doc]}

\* the first of them in configuration order
Selected == CHOOSE i \in Matching : \A j \in Matching : i <= j

\* the identifiers of the first n entries all resolve
ResolvedUpTo(n) == \A i \in 1..n : Resolvable(dispatchers[i].extractor)

\* the dispatcher raised before it invoked an extractor
ConfigurationError == last.outcome = "raised" /\ last.invoked = ""

---------------------------------------------------------------------------
(* C1 *)

\* C1 as stated: whenever a marker of the table is in the first page of the
\* file (and the entry of the first such marker names an existing extractor),
\* the extractor of that entry is the one invoked.
C1_AsClaimed ==
    (TookFile /\ Matching # {} /\ Resolvable(dispatchers[Selected].extractor))
        => last.invoked = dispatchers[Selected].extractor

\* C1, amended: when the identifiers of the entries up to and including the
\* first matching one all resolve, the extractor of the first matching entry
\* is invoked; an invoked extractor is always that of the first matching entry
\* (the earlier one when several markers match), so no other one is invoked;
\* and when an identifier at or before the first matching entry does not
\* resolve, no extractor is invoked at all.
C1_FirstResolvedMatch ==
    TookFile =>
        /\ (Matching # {} /\ ResolvedUpTo(Selected))
               => last.invoked = dispatchers[Selected].extractor
        /\ last.invoked # ""
               => (Matching # {} /\ last.invoked = dispatchers[Selected].extractor)
        /\ (Matching # {} /\ ~ResolvedUpTo(Selected)) => last.invoked = ""

\* a file with two matching markers was dispatched to the earlier entry
C1_Witness ==
    /\ TookFile
    /\ Cardinality(Matching) >= 2
    /\ last.invoked = dispatchers[Selected].extractor

---------------------------------------------------------------------------
(* C2 *)

\* the (cups, bill_id) pairs of a dict of bills
Pairs(dict) == {<<c, b>> \in UNION {{c} \X DOMAIN dict[c] : c \in DOMAIN dict} : TRUE}

\* C2: when the loop stores the record of a file, the aggregate holds under
\* the record's (cups, bill_id) pair that record with the name of that file,
\* whether or not an earlier file had the same pair (so the later file wins
\* and the pair has one entry); every other pair keeps its record; and a file
\* that yields no record leaves the aggregate as it is.
C2_LaterFileWins ==
    [][ (pc = "loop" /\ processed' = processed + 1) =>
            IF last'.outcome = "inserted"
            THEN LET record == outcomes[last'.doc].bill_info
                     pair == <<record["cups"].v, record["bill_id"].v>>
                 IN  /\ Pairs(bills') = Pairs(bills) \cup {pair}
                     /\ bills'[pair[1]][pair[2]] = Put(record, "file", FileName(processed'))
                     /\ \A other \in Pairs(bills) \ {pair} :
                            bills'[other[1]][other[2]] = bills[other[1]][other[2]]
            ELSE bills' = bills ]_vars

\* the file taken last had the pair of an earlier file and replaced its
\* record, next to a record under another pair
C2_Witness ==
    /\ last.outcome = "inserted"
    /\ last.replaced
    /\ Cardinality(Pairs(bills)) >= 2
    /\ \E pair \in Pairs(bills) : bills[pair[1]][pair[2]]["file"] = FileName(processed)

---------------------------------------------------------------------------
(* C6 *)

\* C6 as stated: under a table whose identifiers all resolve, a file that is
\* unusable for a reason of its own (no ownership marker, no provider marker,
\* date or period missing or malformed, monetary token missing or malformed,
\* mandatory tariff brackets missing) is skipped: it adds no record and the
\* loop goes on.
C6_AsClaimed ==
    (TookFile /\ ResolvedUpTo(Len(dispatchers)) /\ Catalogue[last.doc].defect # "")
        => last.outcome = "skipped"

---------------------------------------------------------------------------
(* C7 *)

\* C7 as stated: the run is aborted when the identifier of the selected
\* (first matching) entry does not resolve, and a file whose selected entry
\* resolves is dispatched to its extractor without the configuration error.
C7_AsClaimed ==
    (TookFile /\ Matching # {}) =>
        IF ~Resolvable(dispatchers[Selected].extractor)
        THEN /\ ConfigurationError
             /\ pc = "exit" /\ workbook = <<>>
             /\ result # Pending /\ ExitStatus(result) # 0
        ELSE /\ last.invoked = dispatchers[Selected].extractor
             /\ ~ConfigurationError

\* C7, amended: the dispatcher raises the configuration error exactly when an
\* identifier that does not resolve is bound to the first matching entry or
\* to an entry configured before it (to any entry when no marker matches);
\* the error ends the run with no report and a non-zero result; a file that
\* matches and does not raise it is dispatched to the extractor of the
\* first matching entry.
C7_ErrorIffUnresolvedReached ==
    TookFile =>
        /\ ConfigurationError
               <=> ~ResolvedUpTo(IF Matching = {} THEN Len(dispatchers) ELSE Selected)
        /\ ConfigurationError
               => /\ pc = "exit" /\ workbook = <<>>
                  /\ result # Pending /\ ExitStatus(result) # 0
        /\ (~ConfigurationError /\ Matching # {})
               => last.invoked = dispatchers[Selected].extractor

\* the identifier of the selected entry did not resolve, with files left
C7_Witness ==
    /\ TookFile
    /\ Matching # {}
    /\ ~Resolvable(dispatchers[Selected].extractor)
    /\ ConfigurationError
    /\ processed < files

---------------------------------------------------------------------------
(* C8 *)

\* the titles C8 expects after the first sheet: the configured titles of the
\* supply points of the aggregate, in the order of sheet_names, then the raw
\* identifiers of the supply points without a configured title, in the order
\* they were met
ExpectedTitles ==
    LET configured == {sheet_names[n].cups : n \in 1..Len(sheet_names)}
        named == SelectSeq(sheet_names, LAMBDA entry : entry.cups \in DOMAIN bills)
    IN  [n \in 1..Len(named) |-> named[n].title]
            \o SelectSeq(order, LAMBDA cups : cups \notin configured)

\* C8 as stated: the saved workbook is the first sheet followed by one sheet
\* per supply point of the aggregate, titled and ordered as ExpectedTitles.
C8_AsClaimed ==
    workbook # <<>> =>
        [n \in 1..Len(workbook) |-> workbook[n].title] = <<FirstSheet.title>> \o ExpectedTitles

---------------------------------------------------------------------------
(* C9 *)

\* C9: when main has returned, the exit status is non-zero exactly when the
\* input directory was missing, held no pdf file, or an exception reached
\* main; otherwise it is zero, every file of the list was taken and the
\* report was generated.
C9_ExitStatus ==
    pc = "exit" =>
        /\ ExitStatus(result) # 0 <=> error \in {"no_directory", "no_files", "exception"}
        /\ ExitStatus(result) = 0 => (processed = files /\ workbook # <<>>)

\* a run in which every file was skipped ended with status zero and a report
C9_Witness ==
    /\ pc = "exit"
    /\ ExitStatus(result) = 0
    /\ files >= 2 /\ processed = files
    /\ bills = EmptyDict
    /\ workbook # <<>>

---------------------------------------------------------------------------
(* C10 *)

ReturnedRecord == xOut # Pending /\ xOut # None /\ xOut # Raised

\* C10 as claimed: every field of the returned record holds what the first
\* line that triggered it captured.
C10_AsClaimed ==
    ReturnedRecord => \A k \in DOMAIN xFirst : xOut[k] = xFirst[k]

\* C10 (amended): in the Endesa and Total extractors every field of the
\* returned record holds what the last line that triggered it, in scan
\* order, captured; a later triggering line replaces the value.
C10_LastTriggerWins ==
    ReturnedRecord =>
        /\ \A k \in DOMAIN xLast : xOut[k] = xLast[k]
        /\ \A k \in DOMAIN xOut \ (DOMAIN xLast \cup {"is_ours"}) :
              Has(DefaultBillInfo, k) /\ xOut[k] = DefaultBillInfo[k]

\* a record was returned one of whose fields two lines captured differently
C10_Witness ==
    /\ ReturnedRecord
    /\ \E k \in DOMAIN xFirst : xFirst[k] # xLast[k]

---------------------------------------------------------------------------
(* C3 *)

\* C3: every record sanitize_bill returns has its rectification flag set iff
\* the parsed first total amount differs from the parsed second one.
C3_RectificationIffAmountsDiffer ==
    (sOut # Pending /\ sOut.returned) =>
        ((sOut.data["is_rectification"] = Bool(TRUE))
            <=> (sOut.data["billed_amount_0"].v # sOut.data["billed_amount_1"].v))

\* a record was returned whose two totals differ
C3_Witness ==
    /\ sOut # Pending /\ sOut.returned
    /\ sOut.data["billed_amount_0"].v # sOut.data["billed_amount_1"].v

---------------------------------------------------------------------------
(* C5 *)

DeclaredFieldMissing(raw) ==
    \E k \in DOMAIN DefaultBillInfo :
        raw[k] = None \/ (raw[k].t = "str" /\ \A p \in 1..Len(raw[k].v) : raw[k].v[p] = " ")

\* every stage of the pipeline has left its result in the record
FullySanitized(d) ==
    /\ d["bill_id"].t = "str" /\ d["cups"].t = "str"
    /\ d["billing_date"].t = "date"
    /\ Has(d, "billing_period_start") /\ d["billing_period_start"].t = "date"
    /\ Has(d, "billing_period_end") /\ d["billing_period_end"].t = "date"
    /\ \A k \in {"billed_power_capacity", "billed_energy_consumed",
                 "billed_amount_0", "billed_amount_1"} : d[k].t = "num"
    /\ \A k \in {"P1", "P2", "P3"} : Has(d, k) /\ d[k].t = "num"
    /\ \A k \in {"P4", "P5", "P6"} : Has(d, k) => d[k].t = "num"

\* C5: a raw record with a declared field null or blank gives no record and is
\* left as it was; a record that is returned has passed every stage.
C5_MissingFieldFailsUntouched ==
    sOut # Pending =>
        /\ DeclaredFieldMissing(sRaw) => (~sOut.returned /\ sOut.data = sRaw)
        /\ sOut.returned => FullySanitized(sOut.data)

\* sanitize_bill has run on a record whose only defect is a blank bill id
C5_Witness ==
    /\ sOut # Pending
    /\ sRaw["bill_id"] = Str(<<" ">>)
    /\ \A k \in DOMAIN DefaultBillInfo \ {"bill_id"} : sRaw[k] # None
    /\ ~sOut.returned

---------------------------------------------------------------------------
(* C4 *)

\* The claim's notion of a currency token, stated on a whole text t:
\* optional sign, integer part (period-grouped thousands or plain digits),
\* comma, two decimals.
TokInteger(t) ==
    /\ t # <<>>
    /\ \/ \A p \in 1..Len(t) : IsDigit(t[p])
       \/ \E k \in 1..3 :
            /\ k <= Len(t)
            /\ (Len(t) - k) % 4 = 0
            /\ \A p \in 1..Len(t) :
                  IF p > k /\ (p - k) % 4 = 1 THEN t[p] = "." ELSE IsDigit(t[p])

TokNumber(t) ==
    /\ Len(t) >= 4
    /\ t[Len(t) - 2] = ","
    /\ IsDigit(t[Len(t) - 1]) /\ IsDigit(t[Len(t)])
    /\ LET int == SubSeq(t, 1, Len(t) - 3)
       IN  \/ TokInteger(int)
           \/ Head(int) \in {"+", "-"} /\ TokInteger(Tail(int))

\* a token whose currency symbol is present
TokWithSymbol(t) ==
    \/ Len(t) >= 5 /\ t[Len(t)] = "€" /\ TokNumber(SubSeq(t, 1, Len(t) - 1))
    \/ /\ Len(t) >= 6 /\ t[Len(t)] = "€" /\ t[Len(t) - 1] = " "
       /\ TokNumber(SubSeq(t, 1, Len(t) - 2))

\* Number of tokens of a line when the symbol is optional: one per place where
\* the number of a token ends.
TokensSymbolOptional(s) ==
    Cardinality({e \in 1..Len(s) : \E b \in 1..e : TokNumber(SubSeq(s, b, e))})

\* Number of tokens of a line when the symbol is required: one per currency
\* symbol that ends a token.
TokensSymbolRequired(s) ==
    Cardinality({e \in 1..Len(s) : \E b \in 1..e : TokWithSymbol(SubSeq(s, b, e))})

\* C4 as claimed: a number is returned iff the line holds exactly one token,
\* the trailing currency symbol being optional.
C4_AsClaimed ==
    aOut # Pending => ((aOut.t = "num") <=> (TokensSymbolOptional(aLine) = 1))

\* C4 (amended): _extract_billed_amount returns a number iff the line holds
\* exactly one token with its currency symbol (optionally preceded by one
\* blank); no such token, or two or more, gives None.
C4_AmountIffOneToken ==
    aOut # Pending => ((aOut.t = "num") <=> (TokensSymbolRequired(aLine) = 1))

\* a line with two tokens was parsed (and gave None), and another with one
C4_Witness ==
    /\ aOut = None
    /\ TokensSymbolRequired(aLine) = 2

C4_WitnessOne ==
    /\ aOut # Pending /\ aOut.t = "num"
    /\ TokensSymbolRequired(aLine) = 1

\* ---------------------------------------------------------------------------
\* C11: the fallback page of the Endesa extractor

\* some tariff code of P1..P6 is held by the record
AnyTariff(bill) == \E n \in 1..Len(PowerTypes) : Has(bill, PowerTypes[n])

\* the loop over the second page of an Endesa document has just ended
EndesaSecondPageEnds == xStage = "endesa2" /\ xStage' # "endesa2"

\* the loop over the last page a Total or a Nufri document is read from has
\* just ended
LastPageEnds ==
    \/ xStage = "total2" /\ xStage' # "total2"
    \/ xStage = "nufri1" /\ xStage' # "nufri1"

\* C11 as stated: when the second page of an Endesa document ends, the third
\* page is scanned if and only if no tariff code of P1..P6 was captured and a
\* third page exists
C11_AsClaimed ==
    [][EndesaSecondPageEnds =>
          (xStage' = "endesa3" <=> (~AnyTariff(xBill) /\ xPages > 2))]_vars

\* C11, amended: when the second page of an Endesa document ends, the third
\* page is scanned if and only if P1 (a P1 row or a Punta row) was not captured
\* and a third page exists, whatever other tariff codes were captured; when P1
\* was captured the extractor returns what the second page left.  The Total
\* and the Nufri extractors return as soon as their last page ends, whatever
\* was captured and however many pages the document has
C11_ThirdPageIffNoP1 ==
    [][/\ EndesaSecondPageEnds =>
            /\ xStage' = "endesa3" <=> (~Has(xBill, "P1") /\ xPages > 2)
            /\ xStage' # "endesa3" => (xStage' = "done" /\ xOut' = ReturnBill(xBill))
       /\ LastPageEnds => (xStage' = "done" /\ xOut' = ReturnBill(xBill))]_vars

\* the second page of a three-page Endesa document captured P2 and not P1, and
\* the third page, scanned all the same, has set P1 and replaced P2
C11_Witness ==
    /\ xStage = "endesa3"
    /\ xPages = 3
    /\ Has(xBill, "P1")
    /\ Has(xBill, "P2")
    /\ Has(xFirst, "P2")
    /\ xFirst["P2"] # xLast["P2"]

\* ---------------------------------------------------------------------------
\* C12: what the aggregate holds

\* the record is filed under its own non-blank cups and bill_id, is ours, and
\* has P1..P3 as numbers and each of P4..P6 as a number or not at all
WellFormed(cups, bill_id, record) ==
    /\ record["cups"] = Str(cups) /\ Strip(cups) # <<>>
    /\ record["bill_id"] = Str(bill_id) /\ Strip(bill_id) # <<>>
    /\ record["is_ours"] = Bool(TRUE)
    /\ \A n \in 1..Len(PowerTypes) :
          IF PowerTypes[n] \in MandatoryPowerTypes
          THEN Has(record, PowerTypes[n]) /\ record[PowerTypes[n]].t = "num"
          ELSE Has(record, PowerTypes[n]) => record[PowerTypes[n]].t = "num"

\* the documents without the owner's name or without one of the rows P1..P3
LackingDocument(d) == Catalogue[d].defect \in {"no_owner", "no_tariff", "no_p3"}

\* C12: after any sequence of processed files, every record of the aggregate
\* is stored under its own supply-point identifier and bill identifier, both
\* non-blank, has the ownership flag true, has P1, P2 and P3 as numbers and
\* P4..P6 absent or numeric; and a file whose document lacks the owner's name
\* or one of the rows P1..P3 is never inserted
C12_AggregateRecords ==
    /\ \A pair \in Pairs(bills) : WellFormed(pair[1], pair[2], bills[pair[1]][pair[2]])
    /\ (TookFile /\ LackingDocument(last.doc)) => last.outcome # "inserted"

\* the aggregate holds a record with a numeric P4 and a record without P4..P6,
\* and the file taken last, a document with P1 and P2 but no P3, was left out
C12_Witness ==
    /\ TookFile
    /\ Catalogue[last.doc].defect = "no_p3"
    /\ last.outcome = "skipped"
    /\ \E pair \in Pairs(bills) : Has(bills[pair[1]][pair[2]], "P4")
    /\ \E pair \in Pairs(bills) :
          \A n \in 4..Len(PowerTypes) : ~Has(bills[pair[1]][pair[2]], PowerTypes[n])

=============================================================================
